---- MODULE Spec2Model ----
(***************************************************************************)
(* DatabaseHandler (src/utils/db_handler.py): a FAISS IndexFlatL2 kept in  *)
(* lockstep with a metadata dictionary {'documents', 'id_map'} and two     *)
(* files, faiss.index and metadata.pkl, under the persist directory.       *)
(*                                                                         *)
(* Rows of the index are numbered from 0 as in the code; TLA+ sequences    *)
(* are 1-based, so row r is element r + 1 of index and of id_map.          *)
(***************************************************************************)
EXTENDS Integers, Sequences, FiniteSets, TLC

\* ------------------------------------------------------------------ bounds

\* rows the index may hold
MaxRows == 4
\* embeddings in one add_document call
MaxChunks == 2
\* largest n_results a query asks for
MaxK == 2
\* failed writes of the persist directory during one run
MaxFaults == 1
\* vector dimension (768 in the program, scaled down)
dimension == 1
\* characters in a text handed to _chunk_text
MaxTextLen == 6
\* largest max_length handed to _chunk_text
MaxBudget == 4

\* the max_length get_embeddings passes to _chunk_text
DefaultMaxLength == 1000

\* ------------------------------------------------------------------ inputs

\* the files the administrator uploads: the uuid4 process_file draws for the
\* upload, the extracted text and the file's name (two files share a name)
Uploads == { [id |-> "A", text |-> "alpha", filename |-> "notes.txt"],
             [id |-> "B", text |-> "beta", filename |-> "notes.txt"],
             [id |-> "C", text |-> "gamma", filename |-> "faq.md"] }

DocIds == { up.id : up \in Uploads }

\* the embeddings the gateway hands out: points on the diagonal
Coords == {0, 1}
Vectors == { [i \in 1..dimension |-> c] : c \in Coords }

\* a vector the index rejects: one coordinate too many
BadVector == [i \in 1..(dimension + 1) |-> 0]

EmbeddingBatches ==
    UNION { [1..n -> Vectors] : n \in 0..MaxChunks } \cup { <<BadVector>> }

\* how the flat search orders rows at equal distance (not fixed by the library)
TieBreaks == {"low", "high"}

\* outcome of the writes of one persist() call
IoOutcomes == {"ok", "index_open_fails", "index_write_fails",
               "metadata_open_fails", "metadata_dump_fails"}

Absent == [kind |-> "absent"]
Corrupt == [kind |-> "corrupt"]

\* _chunk_text has not been called
NotChunked == [kind |-> "not_chunked"]

\* no call in flight
Idle == [pc |-> "idle"]

VARIABLES
    handler,        \* "ready": a DatabaseHandler exists; "none": the process is down
    index,          \* self.index: the rows of the IndexFlatL2, in row order
    id_map,         \* self.metadata['id_map']
    documents,      \* self.metadata['documents'], in dict order
    index_file,     \* persist_directory / "faiss.index"
    metadata_file,  \* persist_directory / "metadata.pkl"
    lastCall,       \* the last call made and what it returned
    deleted,        \* ids whose delete_document returned True and were not added since
    faults,         \* failed writes so far
    the_text,       \* _chunk_text: text, the string handed in, by character
    max_length,     \* _chunk_text: the budget handed in
    chunks,         \* _chunk_text: the list returned, NotChunked before the call
    deleting,       \* a delete_document call in flight on another thread
    querying        \* a query_similar call in flight on another thread

\* what a call of _chunk_text works on
chunker == <<the_text, max_length, chunks>>

\* the calls in flight
threads == <<deleting, querying>>

vars == <<handler, index, id_map, documents, index_file, metadata_file,
          lastCall, deleted, faults, chunker, threads>>

\* ------------------------------------------------------------------ helpers

\* the sum of the squared differences of the first n coordinates
RECURSIVE SqSum(_, _, _)
SqSum(u, v, n) ==
    IF n = 0 THEN 0 ELSE (u[n] - v[n]) * (u[n] - v[n]) + SqSum(u, v, n - 1)

\* squared Euclidean distance, the metric of IndexFlatL2
L2(u, v) == SqSum(u, v, dimension)

Range(s) == { s[i] : i \in 1..Len(s) }

Ids(docs) == { docs[i].id : i \in 1..Len(docs) }

\* document_id in self.metadata['documents']
HasDoc(docs, document_id) == document_id \in Ids(docs)

\* self.metadata['documents'][document_id]
DocOf(docs, document_id) ==
    docs[CHOOSE i \in 1..Len(docs) : docs[i].id = document_id]

\* self.metadata['documents'][document_id] = entry: a new key goes last, an
\* existing key keeps its place
PutDoc(docs, entry) ==
    IF HasDoc(docs, entry.id)
    THEN [i \in 1..Len(docs) |-> IF docs[i].id = entry.id THEN entry ELSE docs[i]]
    ELSE Append(docs, entry)

\* the in-memory state of a handler: self.index and self.metadata
Self == [index |-> index, id_map |-> id_map, documents |-> documents]

EmptySelf == [index |-> <<>>, id_map |-> <<>>, documents |-> <<>>]

\* ------------------------------------------------------------------ persistence

\* faiss.write_index of an IndexFlatL2: the header and the rows as one flat array
write_index(idx) ==
    [kind |-> "faiss", d |-> dimension, ntotal |-> Len(idx),
     xb |-> [p \in 1..(Len(idx) * dimension) |->
                idx[((p - 1) \div dimension) + 1][((p - 1) % dimension) + 1]]]

\* faiss.read_index: the rows cut back out of the flat array
read_index(file) ==
    [r \in 1..file.ntotal |->
        [j \in 1..file.d |-> file.xb[(r - 1) * file.d + j]]]

\* pickle.dump(self.metadata, f)
pickle_dump(self) ==
    [kind |-> "pickle", documents |-> self.documents, id_map |-> self.id_map]

\* persist(): write the index, then the metadata; any exception is caught and
\* turned into the return value False. io is what the file system does.
\*   index_open_fails     write_index cannot open the file: nothing is written
\*   index_write_fails    write_index fails after truncating the file
\*   metadata_open_fails  the index is written, open(metadata_path, 'wb') fails
\*   metadata_dump_fails  the index is written, metadata.pkl is truncated and
\*                        pickle.dump fails
persist(self, old_index_file, old_metadata_file, io) ==
    [ret |-> (io = "ok"),
     index_file |->
        CASE io = "index_open_fails" -> old_index_file
          [] io = "index_write_fails" -> Corrupt
          [] OTHER -> write_index(self.index),
     metadata_file |->
        CASE io = "ok" -> pickle_dump(self)
          [] io = "metadata_dump_fails" -> Corrupt
          [] OTHER -> old_metadata_file]

\* a missing or unreadable metadata.pkl replaced by the empty metadata
init_default_metadata(the_index_file, the_metadata_file) ==
    IF the_index_file.kind # "absent"
    THEN IF the_index_file.kind = "corrupt"
         THEN [raised |-> TRUE, self |-> EmptySelf]
         ELSE IF the_metadata_file.kind # "pickle"
         THEN [raised |-> FALSE,
               self |-> [index |-> read_index(the_index_file),
                         id_map |-> <<>>, documents |-> <<>>]]
         ELSE [raised |-> FALSE,
               self |-> [index |-> read_index(the_index_file),
                         id_map |-> the_metadata_file.id_map,
                         documents |-> the_metadata_file.documents]]
    ELSE [raised |-> FALSE, self |-> EmptySelf]

\* __init__: load both files when faiss.index exists, else start empty.
\* raised: an exception leaves the constructor (no handler is produced).
__init__(the_index_file, the_metadata_file) ==
    IF the_index_file.kind # "absent"
    THEN IF the_index_file.kind = "corrupt"
         THEN [raised |-> TRUE, self |-> EmptySelf]      \* read_index raises
         ELSE IF the_metadata_file.kind # "pickle"
         THEN [raised |-> TRUE, self |-> EmptySelf]      \* open or pickle.load raises
         ELSE [raised |-> FALSE,
               self |-> [index |-> read_index(the_index_file),
                         id_map |-> the_metadata_file.id_map,
                         documents |-> the_metadata_file.documents]]
    ELSE [raised |-> FALSE, self |-> EmptySelf]

\* ------------------------------------------------------------------ add_document

\* only a wrong dimension is refused
add_raises_wrong_dimension(embeddings) ==
    \E i \in 1..Len(embeddings) : Len(embeddings[i]) # dimension

\* np.array(embeddings).astype('float32') and self.index.add(...) raise on an
\* empty list (shape (0,) has no second axis) and on a wrong dimension
add_raises(embeddings) ==
    \/ Len(embeddings) = 0
    \/ \E i \in 1..Len(embeddings) : Len(embeddings[i]) # dimension

\* the range shifted by one row
chunk_range_from_next(start_idx, n) == [i \in 1..n |-> start_idx + i]

\* list(range(start_idx, start_idx + len(embeddings)))
chunk_range(start_idx, n) == [i \in 1..n |-> start_idx + i - 1]

\* the batch added to the index last row first
add_document_reversed(self, document_id, text, embeddings, metadata) ==
    IF add_raises(embeddings)
    THEN [ret |-> FALSE, mutated |-> FALSE, self |-> self]
    ELSE LET start_idx == Len(self.id_map)
             n == Len(embeddings)
         IN [ret |-> TRUE, mutated |-> TRUE,
             self |-> [index |-> self.index \o [i \in 1..n |-> embeddings[n + 1 - i]],
                       id_map |-> self.id_map \o [i \in 1..n |-> document_id],
                       documents |->
                           PutDoc(self.documents,
                                  [id |-> document_id, text |-> text,
                                   metadata |-> metadata,
                                   chunk_indices |-> chunk_range(start_idx, n)])]]

\* the body of add_document up to the call of persist(); mutated: whether the
\* in-memory state was changed, so that persist() is reached
add_document(self, document_id, text, embeddings, metadata) ==
    IF add_raises(embeddings)
    THEN [ret |-> FALSE, mutated |-> FALSE, self |-> self]
    ELSE LET start_idx == Len(self.id_map)
             n == Len(embeddings)
         IN [ret |-> TRUE, mutated |-> TRUE,
             self |-> [index |-> self.index \o embeddings,
                       id_map |-> self.id_map \o [i \in 1..n |-> document_id],
                       documents |->
                           PutDoc(self.documents,
                                  [id |-> document_id, text |-> text,
                                   metadata |-> metadata,
                                   chunk_indices |-> chunk_range(start_idx, n)])]]

\* ------------------------------------------------------------------ delete_document

\* only the first of the document's rows
indices_to_remove_first(self, document_id) ==
    {DocOf(self.documents, document_id).chunk_indices[1]}

\* set(self.metadata['documents'][document_id]['chunk_indices'])
indices_to_remove(self, document_id) ==
    Range(DocOf(self.documents, document_id).chunk_indices)

\* chunk_indices.append with this entry of the new store
AppendTo(new_documents, doc_id, position) ==
    [i \in 1..Len(new_documents) |->
        IF new_documents[i].id = doc_id
        THEN [new_documents[i] EXCEPT !.chunk_indices = Append(@, position)]
        ELSE new_documents[i]]

\* current_idx counted up before it is appended
append_position_incremented(new_documents, old_documents, doc_id, current_idx) ==
    IF HasDoc(new_documents, doc_id)
    THEN AppendTo(new_documents, doc_id, current_idx + 1)
    ELSE Append(new_documents,
                [id |-> doc_id,
                 text |-> DocOf(old_documents, doc_id).text,
                 metadata |-> DocOf(old_documents, doc_id).metadata,
                 chunk_indices |-> <<current_idx + 1>>])

\* text and metadata read from the first entry of the old store
append_position_first_entry(new_documents, old_documents, doc_id, current_idx) ==
    IF HasDoc(new_documents, doc_id)
    THEN AppendTo(new_documents, doc_id, current_idx)
    ELSE Append(new_documents,
                [id |-> doc_id,
                 text |-> old_documents[1].text,
                 metadata |-> old_documents[1].metadata,
                 chunk_indices |-> <<current_idx>>])

\* new_metadata['documents'][doc_id]['chunk_indices'].append(current_idx),
\* creating the entry from the old one on first use
append_position(new_documents, old_documents, doc_id, current_idx) ==
    IF HasDoc(new_documents, doc_id)
    THEN AppendTo(new_documents, doc_id, current_idx)
    ELSE Append(new_documents,
                [id |-> doc_id,
                 text |-> DocOf(old_documents, doc_id).text,
                 metadata |-> DocOf(old_documents, doc_id).metadata,
                 chunk_indices |-> <<current_idx>>])

\* the loop over range(len(id_map)); acc holds new_index, new_metadata,
\* current_idx and whether a KeyError was raised
RECURSIVE rebuild(_, _, _, _, _)
rebuild(self, document_id, to_remove, old_idx, acc) ==
    IF acc.raised \/ old_idx >= Len(self.id_map)
    THEN acc
    ELSE IF old_idx \in to_remove
    THEN rebuild(self, document_id, to_remove, old_idx + 1, acc)
    ELSE LET doc_id == self.id_map[old_idx + 1]
             \* vectors[old_idx:old_idx+1] is empty past the last row
             row == IF old_idx < Len(self.index)
                    THEN <<self.index[old_idx + 1]>> ELSE <<>>
             kept == [acc EXCEPT !.index = @ \o row,
                                 !.id_map = Append(@, doc_id)]
         IN rebuild(self, document_id, to_remove, old_idx + 1,
                IF doc_id = document_id
                THEN kept
                ELSE IF ~HasDoc(acc.documents, doc_id) /\ ~HasDoc(self.documents, doc_id)
                THEN [acc EXCEPT !.raised = TRUE]
                ELSE [kept EXCEPT
                        !.documents = append_position(@, self.documents, doc_id,
                                                      acc.current_idx),
                        !.current_idx = @ + 1])

\* new_index and new_metadata as the loop leaves them
Rebuilt(self, document_id) ==
    rebuild(self, document_id, indices_to_remove(self, document_id), 0,
            [index |-> <<>>, id_map |-> <<>>, documents |-> <<>>,
             current_idx |-> 0, raised |-> FALSE])

\* the new index is swapped in, the new metadata is not
delete_document_keeps_metadata(self, document_id) ==
    IF ~HasDoc(self.documents, document_id)
    THEN [ret |-> FALSE, mutated |-> FALSE, self |-> self]
    ELSE LET new == Rebuilt(self, document_id)
         IN IF new.raised
            THEN [ret |-> FALSE, mutated |-> FALSE, self |-> self]
            ELSE [ret |-> TRUE, mutated |-> TRUE,
                  self |-> [index |-> new.index, id_map |-> self.id_map,
                            documents |-> self.documents]]

\* the rows built before the KeyError are swapped in although the call fails
delete_document_partial(self, document_id) ==
    IF ~HasDoc(self.documents, document_id)
    THEN [ret |-> FALSE, mutated |-> FALSE, self |-> self]
    ELSE LET new == Rebuilt(self, document_id)
         IN IF new.raised
            THEN [ret |-> FALSE, mutated |-> FALSE,
                  self |-> [index |-> new.index, id_map |-> self.id_map,
                            documents |-> self.documents]]
            ELSE [ret |-> TRUE, mutated |-> TRUE,
                  self |-> [index |-> new.index, id_map |-> new.id_map,
                            documents |-> new.documents]]

\* an id that is not stored goes on to the swap and to persist()
delete_document_absent_persists(self, document_id) ==
    IF ~HasDoc(self.documents, document_id)
    THEN [ret |-> TRUE, mutated |-> TRUE, self |-> self]
    ELSE LET new == Rebuilt(self, document_id)
         IN IF new.raised
            THEN [ret |-> FALSE, mutated |-> FALSE, self |-> self]
            ELSE [ret |-> TRUE, mutated |-> TRUE,
                  self |-> [index |-> new.index, id_map |-> new.id_map,
                            documents |-> new.documents]]

\* the body of delete_document up to the call of persist()
delete_document(self, document_id) ==
    IF ~HasDoc(self.documents, document_id)
    THEN [ret |-> FALSE, mutated |-> FALSE, self |-> self]
    ELSE LET new == Rebuilt(self, document_id)
         IN IF new.raised
            THEN [ret |-> FALSE, mutated |-> FALSE, self |-> self]
            ELSE [ret |-> TRUE, mutated |-> TRUE,
                  self |-> [index |-> new.index, id_map |-> new.id_map,
                            documents |-> new.documents]]

\* ------------------------------------------------------------------ query_similar

\* the distances D of a search for q, by row
Distances(idx, q) == [r \in 1..Len(idx) |-> L2(idx[r], q)]

\* row s comes before row r in the result of a search with distances d
Before(d, tb, s, r) ==
    \/ d[s + 1] < d[r + 1]
    \/ /\ d[s + 1] = d[r + 1]
       /\ IF tb = "low" THEN s < r ELSE s > r

\* the rows in the order of the search result: nearest first
RECURSIVE SortRows(_, _, _)
SortRows(d, tb, rows) ==
    IF rows = {}
    THEN <<>>
    ELSE LET first == CHOOSE r \in rows : \A s \in rows \ {r} : Before(d, tb, r, s)
         IN <<first>> \o SortRows(d, tb, rows \ {first})

\* self.index.search(query_array, n_results), the labels I[0]: the k nearest
\* rows by ascending distance, filled up with -1 when the index has fewer rows
search(idx, q, k, tb) ==
    LET sorted == SortRows(Distances(idx, q), tb, 0..(Len(idx) - 1))
    IN [p \in 1..k |-> IF p <= Len(idx) THEN sorted[p] ELSE -1]

\* no document counts as seen
never_seen(doc_id, seen_docs) == FALSE

\* doc_id in seen_docs
already_seen(doc_id, seen_docs) == doc_id \in seen_docs

\* the loop over I[0]; acc holds results, seen_docs and whether an IndexError or
\* KeyError was raised. A negative idx passes the bound check and indexes
\* id_map from its end, as Python lists do.
RECURSIVE walk(_, _, _, _)
walk(self, I, p, acc) ==
    IF acc.raised \/ p > Len(I)
    THEN acc
    ELSE LET idx == I[p]
             n == Len(self.id_map)
             at == IF idx < 0 THEN n + idx ELSE idx
         IN IF idx >= n
            THEN walk(self, I, p + 1, acc)
            ELSE IF at < 0
            THEN [acc EXCEPT !.raised = TRUE]
            ELSE LET doc_id == self.id_map[at + 1]
                 IN IF already_seen(doc_id, acc.seen_docs)
                    THEN walk(self, I, p + 1, acc)
                    ELSE IF ~HasDoc(self.documents, doc_id)
                    THEN [acc EXCEPT !.raised = TRUE]
                    ELSE walk(self, I, p + 1,
                              [acc EXCEPT
                                 !.seen_docs = @ \cup {doc_id},
                                 !.results = Append(@,
                                    [id |-> doc_id,
                                     text |-> DocOf(self.documents, doc_id).text,
                                     metadata |-> DocOf(self.documents, doc_id).metadata])])

\* the try block of query_similar: search raises unless n_results > 0
query_try(self, q, k, tb) ==
    IF k <= 0
    THEN [raised |-> TRUE, results |-> <<>>, seen_docs |-> {}]
    ELSE walk(self, search(self.index, q, k, tb), 1,
              [raised |-> FALSE, results |-> <<>>, seen_docs |-> {}])

\* the try block without its except clause
query_similar_uncaught(self, q, k, tb) ==
    LET r == query_try(self, q, k, tb)
    IN [raised |-> r.raised, results |-> r.results]

\* query_similar: what the caller gets; raised: an exception leaves the call
query_similar(self, q, k, tb) ==
    LET r == query_try(self, q, k, tb)
    IN IF r.raised
       THEN [raised |-> FALSE, results |-> <<>>]      \* except Exception: return []
       ELSE [raised |-> FALSE, results |-> r.results]

\* ------------------------------------------------------------------ list_documents

list_documents(self) ==
    [i \in 1..Len(self.documents) |->
        [id |-> self.documents[i].id,
         filename |-> self.documents[i].metadata.filename,
         file_type |-> self.documents[i].metadata.file_type,
         upload_date |-> self.documents[i].metadata.upload_date]]

\* ------------------------------------------------------------------ _chunk_text

\* the characters of a text: two letters and the blank
Letters == {"a", "b"}
Whitespace == {" "}
Chars == Letters \cup Whitespace

\* the texts and budgets _chunk_text is called with
Texts == UNION { [1..n -> Chars] : n \in 0..MaxTextLen }
Budgets == 1..MaxBudget

\* text.split(): the maximal runs of non-whitespace characters, in order;
\* word is the run being read
RECURSIVE split_from(_, _, _)
split_from(s, i, word) ==
    IF i > Len(s)
    THEN IF word = <<>> THEN <<>> ELSE <<word>>
    ELSE IF s[i] \in Whitespace
    THEN IF word = <<>>
         THEN split_from(s, i + 1, <<>>)
         ELSE <<word>> \o split_from(s, i + 1, <<>>)
    ELSE split_from(s, i + 1, Append(word, s[i]))

split(s) == split_from(s, 1, <<>>)

\* " ".join(parts)
RECURSIVE join(_)
join(parts) ==
    IF Len(parts) = 0
    THEN <<>>
    ELSE IF Len(parts) = 1
    THEN parts[1]
    ELSE parts[1] \o <<" ">> \o join(Tail(parts))

\* the test without the separating blank
exceeds_without_blank(current_length, word, budget) ==
    current_length + Len(word) > budget

\* current_length + len(word) + 1 > max_length
exceeds(current_length, word, budget) ==
    current_length + Len(word) + 1 > budget

\* the loop over words; st holds chunks, current_chunk and current_length
RECURSIVE chunk_loop(_, _, _, _)
chunk_loop(words, i, budget, st) ==
    IF i > Len(words)
    THEN st
    ELSE LET word == words[i]
         IN chunk_loop(words, i + 1, budget,
                IF exceeds(st.current_length, word, budget)
                THEN [chunks |-> Append(st.chunks, join(st.current_chunk)),
                      current_chunk |-> <<word>>,
                      current_length |-> Len(word)]
                ELSE [chunks |-> st.chunks,
                      current_chunk |-> Append(st.current_chunk, word),
                      current_length |-> st.current_length + Len(word) + 1])

\* _chunk_text(text, max_length): the list of chunks
_chunk_text(txt, budget) ==
    LET st == chunk_loop(split(txt), 1, budget,
                         [chunks |-> <<>>, current_chunk |-> <<>>,
                          current_length |-> 0])
    IN IF st.current_chunk # <<>>
       THEN Append(st.chunks, join(st.current_chunk))
       ELSE st.chunks

\* ------------------------------------------------------------------ the caller

\* Path(file_path).suffix[1:].lower()
FileType(filename) == IF filename = "notes.txt" THEN "txt" ELSE "md"

\* the metadata process_file builds for an upload
UploadMetadata(up) ==
    [filename |-> up.filename, file_type |-> FileType(up.filename),
     upload_date |-> "2024-01-01T00:00:00"]

Call(op, doc, ret, persisted) ==
    [op |-> op, doc |-> doc, ret |-> ret, persisted |-> persisted,
     q |-> <<>>, k |-> 0, out |-> <<>>]

\* the call of persist() at the end of a call that changed the in-memory
\* state; a write fails only while the fault budget lasts
Persisting(new_self, io) ==
    LET w == persist(new_self, index_file, metadata_file, io)
    IN /\ io # "ok" => faults < MaxFaults
       /\ faults' = IF io = "ok" THEN faults ELSE faults + 1
       /\ index_file' = w.index_file
       /\ metadata_file' = w.metadata_file

\* ------------------------------------------------------------------ actions

Init ==
    /\ handler = "ready"
    /\ index = <<>>
    /\ id_map = <<>>
    /\ documents = <<>>
    /\ index_file = Absent
    /\ metadata_file = Absent
    /\ lastCall = Call("init", "-", TRUE, FALSE)
    /\ deleted = {}
    /\ faults = 0
    /\ the_text = <<>>
    /\ max_length = DefaultMaxLength
    /\ chunks = NotChunked
    /\ deleting = Idle
    /\ querying = Idle

\* process_file: add_document with a fresh uuid4 as the document id; ios is
\* what the file system may do to the writes, batches what get_embeddings may
\* return
AddDocumentIo(ios, batches) ==
    /\ handler = "ready"
    /\ \E up \in Uploads, embeddings \in batches, io \in ios :
        LET document_id == up.id
            r == add_document(Self, document_id, up.text, embeddings, UploadMetadata(up))
        IN /\ ~HasDoc(documents, document_id)
           /\ Len(index) + Len(embeddings) <= MaxRows
           /\ Len(id_map) + Len(embeddings) <= MaxRows
           /\ index' = r.self.index
           /\ id_map' = r.self.id_map
           /\ documents' = r.self.documents
           /\ IF r.mutated
              THEN Persisting(r.self, io)
              ELSE /\ io = "ok"
                   /\ UNCHANGED <<index_file, metadata_file, faults>>
           /\ lastCall' = Call("add", document_id, r.ret, r.mutated /\ io = "ok")
           /\ deleted' = IF r.ret THEN deleted \ {document_id} ELSE deleted
           /\ UNCHANGED <<handler, chunker, threads>>

DeleteDocumentIo(ios) ==
    /\ handler = "ready"
    /\ \E document_id \in DocIds, io \in ios :
        LET r == delete_document(Self, document_id)
        IN /\ index' = r.self.index
           /\ id_map' = r.self.id_map
           /\ documents' = r.self.documents
           /\ IF r.mutated
              THEN Persisting(r.self, io)
              ELSE /\ io = "ok"
                   /\ UNCHANGED <<index_file, metadata_file, faults>>
           /\ lastCall' = Call("delete", document_id, r.ret, r.mutated /\ io = "ok")
           /\ deleted' = IF r.ret THEN deleted \cup {document_id} ELSE deleted
           /\ UNCHANGED <<handler, chunker, threads>>

QuerySimilar ==
    /\ handler = "ready"
    /\ \E q \in Vectors, k \in 0..MaxK, tb \in TieBreaks :
        LET r == query_similar(Self, q, k, tb)
        IN lastCall' = [Call("query", "-", ~r.raised, FALSE) EXCEPT
                            !.q = q, !.k = k, !.out = r.results]
    /\ UNCHANGED <<handler, index, id_map, documents, index_file, metadata_file,
                   deleted, faults, chunker, threads>>

ListDocuments ==
    /\ handler = "ready"
    /\ lastCall' = [Call("list", "-", TRUE, FALSE) EXCEPT !.out = list_documents(Self)]
    /\ UNCHANGED <<handler, index, id_map, documents, index_file, metadata_file,
                   deleted, faults, chunker, threads>>

\* a run on a healthy file system
AddDocument == AddDocumentIo({"ok"}, EmbeddingBatches)
DeleteDocument == DeleteDocumentIo({"ok"})

Next == AddDocument \/ DeleteDocument \/ QuerySimilar \/ ListDocuments

Spec == Init /\ [][Next]_vars

\* ------------------------------------------------------------------ faults and restarts

\* what becomes of the two files does not depend on the coordinates: here every
\* chunk embeds to the origin
OriginBatches ==
    { b \in EmbeddingBatches :
        \A i \in 1..Len(b) : \A j \in 1..Len(b[i]) : b[i][j] = 0 }

\* the same calls on a file system whose writes may fail
AddDocumentFaulty == AddDocumentIo(IoOutcomes, OriginBatches)
DeleteDocumentFaulty == DeleteDocumentIo(IoOutcomes)

\* the process ends: the handler and its in-memory state are gone, the files stay
Shutdown ==
    /\ handler = "ready"
    /\ handler' = "none"
    /\ index' = <<>>
    /\ id_map' = <<>>
    /\ documents' = <<>>
    /\ lastCall' = Call("shutdown", "-", TRUE, FALSE)
    /\ deleted' = {}
    /\ UNCHANGED <<index_file, metadata_file, faults, chunker, threads>>

\* the process starts: db_handler = DatabaseHandler() on the persist directory
Construct ==
    /\ handler = "none"
    /\ LET r == __init__(index_file, metadata_file)
       IN /\ handler' = IF r.raised THEN "none" ELSE "ready"
          /\ index' = r.self.index
          /\ id_map' = r.self.id_map
          /\ documents' = r.self.documents
          /\ lastCall' = Call("init", "-", ~r.raised, FALSE)
    /\ UNCHANGED <<index_file, metadata_file, deleted, faults, chunker, threads>>

\* between two runs one of the two files is lost (a partial copy or restore of
\* the persist directory)
LoseArtifact ==
    /\ handler = "none"
    /\ faults < MaxFaults
    /\ faults' = faults + 1
    /\ \/ /\ index_file # Absent
          /\ index_file' = Absent
          /\ UNCHANGED metadata_file
       \/ /\ metadata_file # Absent
          /\ metadata_file' = Absent
          /\ UNCHANGED index_file
    /\ lastCall' = Call("lose", "-", TRUE, FALSE)
    /\ UNCHANGED <<handler, index, id_map, documents, deleted, chunker, threads>>

NextDisk ==
    \/ AddDocumentFaulty
    \/ DeleteDocumentFaulty
    \/ Shutdown
    \/ Construct
    \/ LoseArtifact

SpecDisk == Init /\ [][NextDisk]_vars

\* the same runs with queries between the calls
NextDiskQuery == NextDisk \/ QuerySimilar

SpecDiskQuery == Init /\ [][NextDiskQuery]_vars

\* ------------------------------------------------------------------ calls on two threads

\* The web server runs the admin's delete and a visitor's chat on different
\* threads and the handler takes no lock. A step is what one thread does
\* between two points at which the other may run: delete_document up to the
\* assignment of self.index (line 135), then the assignment of self.metadata
\* and persist() (lines 136-140); query_similar up to the search (line 66),
\* then the loop that reads self.metadata (lines 68-88).

\* the last complete state: the one the delete in flight started from
CompleteBefore == IF deleting.pc = "swapping" THEN deleting.pre ELSE Self

\* the next complete state: the one the delete in flight leads to
CompleteAfter == IF deleting.pc = "swapping" THEN deleting.new ELSE Self

\* uploads while no other call is in flight
AddDocumentAlone ==
    /\ deleting = Idle
    /\ querying = Idle
    /\ AddDocument

\* delete_document of a stored id, lines 96-135: the new index and metadata
\* are built and self.index is assigned. At most one delete overlaps a query.
DeleteSwapIndex ==
    /\ handler = "ready"
    /\ deleting = Idle
    /\ querying.pc # "done"
    /\ querying.pc = "searched" => querying.pre = Self
    /\ \E document_id \in DocIds :
        LET r == delete_document(Self, document_id)
        IN /\ r.mutated
           /\ index' = r.self.index
           /\ deleting' = [pc |-> "swapping", document_id |-> document_id,
                           pre |-> Self, new |-> r.self]
    /\ UNCHANGED <<handler, id_map, documents, index_file, metadata_file,
                   lastCall, deleted, faults, chunker, querying>>

\* delete_document, lines 136-140: self.metadata is assigned, persist(), True
DeleteSwapMetadata ==
    /\ deleting.pc = "swapping"
    /\ querying.pc # "done"
    /\ id_map' = deleting.new.id_map
    /\ documents' = deleting.new.documents
    /\ Persisting([index |-> index, id_map |-> deleting.new.id_map,
                   documents |-> deleting.new.documents], "ok")
    /\ lastCall' = Call("delete", deleting.document_id, TRUE, TRUE)
    /\ deleted' = deleted \cup {deleting.document_id}
    /\ deleting' = Idle
    /\ UNCHANGED <<handler, index, chunker, querying>>

\* query_similar, lines 61-66: the search on self.index as it is now
QuerySearch ==
    /\ handler = "ready"
    /\ querying = Idle
    /\ \E q \in Vectors, k \in 1..MaxK, tb \in TieBreaks :
        querying' = [pc |-> "searched", q |-> q, k |-> k,
                     I |-> search(index, q, k, tb), pre |-> CompleteBefore]
    /\ UNCHANGED <<handler, index, id_map, documents, index_file, metadata_file,
                   lastCall, deleted, faults, chunker, deleting>>

\* query_similar, lines 68-86: the labels resolved with self.metadata as it is
\* now
QueryResolve ==
    /\ querying.pc = "searched"
    /\ LET r == walk(Self, querying.I, 1,
                     [raised |-> FALSE, results |-> <<>>, seen_docs |-> {}])
           results == IF r.raised THEN <<>> ELSE r.results
       IN /\ querying' = [pc |-> "done", q |-> querying.q, k |-> querying.k,
                          I |-> querying.I, pre |-> querying.pre,
                          post |-> CompleteAfter, results |-> results]
    /\ UNCHANGED <<handler, index, id_map, documents, index_file, metadata_file,
                   lastCall, deleted, faults, chunker, deleting>>

\* query_similar, line 88: the results go back to the caller before either
\* thread goes on
QueryReturn ==
    /\ querying.pc = "done"
    /\ querying' = Idle
    /\ lastCall' = [Call("query", "-", TRUE, FALSE) EXCEPT
                      !.q = querying.q, !.k = querying.k, !.out = querying.results]
    /\ UNCHANGED <<handler, index, id_map, documents, index_file, metadata_file,
                   deleted, faults, chunker, deleting>>

NextThreads ==
    \/ AddDocumentAlone
    \/ DeleteSwapIndex
    \/ DeleteSwapMetadata
    \/ QuerySearch
    \/ QueryResolve
    \/ QueryReturn

SpecThreads == Init /\ [][NextThreads]_vars

\* an upload and a delete on two threads: the upload may run while a delete is
\* between its two assignments
NextWriters ==
    \/ AddDocument
    \/ DeleteSwapIndex
    \/ DeleteSwapMetadata

SpecWriters == Init /\ [][NextWriters]_vars

\* ------------------------------------------------------------------ the admin's table

\* the columns of the table: Name, Type, Date, Actions
Columns == 0..3

\* the rows process_file and delete_document hand to the table: one per
\* document, in the order of list_documents, without the id
TableRows(self) ==
    [i \in 1..Len(list_documents(self)) |->
        <<list_documents(self)[i].filename, list_documents(self)[i].file_type,
          list_documents(self)[i].upload_date, "Delete">>]

\* next((doc['id'] for doc in all_docs if doc['filename'] == filename), None)
first_with_filename(all_docs, filename) ==
    IF \E i \in 1..Len(all_docs) : all_docs[i].filename = filename
    THEN all_docs[CHOOSE i \in 1..Len(all_docs) :
                    /\ all_docs[i].filename = filename
                    /\ \A j \in 1..(i - 1) : all_docs[j].filename # filename].id
    ELSE "-"

SelectCall(selected, doc, ret, persisted) ==
    [op |-> "select", doc |-> doc, ret |-> ret, persisted |-> persisted,
     q |-> <<>>, k |-> 0, out |-> <<>>, selected |-> selected]

\* the delete_document handler of app.py: the administrator clicks a cell of
\* the table, which shows the documents as they are now. A click outside the
\* Actions column does nothing; a click in it looks the document up by the
\* filename of the row and deletes what it finds.
SelectDelete ==
    /\ handler = "ready"
    /\ \E row \in 1..Len(TableRows(Self)), column \in Columns :
        LET selected == list_documents(Self)[row].id
            filename == TableRows(Self)[row][1]
            doc_id == first_with_filename(list_documents(Self), filename)
            r == delete_document(Self, doc_id)
        IN IF column # 3 \/ doc_id = "-"
           THEN /\ lastCall' = SelectCall(selected, "-", FALSE, FALSE)
                /\ UNCHANGED <<index, id_map, documents, index_file,
                               metadata_file, faults, deleted>>
           ELSE /\ index' = r.self.index
                /\ id_map' = r.self.id_map
                /\ documents' = r.self.documents
                /\ IF r.mutated
                   THEN Persisting(r.self, "ok")
                   ELSE UNCHANGED <<index_file, metadata_file, faults>>
                /\ lastCall' = SelectCall(selected, doc_id, r.ret, r.mutated)
                /\ deleted' = IF r.ret THEN deleted \cup {doc_id} ELSE deleted
    /\ UNCHANGED <<handler, chunker, threads>>

NextAdmin == AddDocument \/ SelectDelete

SpecAdmin == Init /\ [][NextAdmin]_vars

\* ------------------------------------------------------------------ callers that reuse ids

\* add_document called with any id, stored already or not: the handler itself
\* takes whatever id it is given
AddDocumentAnyId ==
    /\ handler = "ready"
    /\ \E up \in Uploads, embeddings \in OriginBatches :
        LET document_id == up.id
            r == add_document(Self, document_id, up.text, embeddings, UploadMetadata(up))
        IN /\ Len(index) + Len(embeddings) <= MaxRows
           /\ Len(id_map) + Len(embeddings) <= MaxRows
           /\ index' = r.self.index
           /\ id_map' = r.self.id_map
           /\ documents' = r.self.documents
           /\ IF r.mutated
              THEN Persisting(r.self, "ok")
              ELSE UNCHANGED <<index_file, metadata_file, faults>>
           /\ lastCall' = Call("add", document_id, r.ret, r.mutated)
           /\ deleted' = IF r.ret THEN deleted \ {document_id} ELSE deleted
           /\ UNCHANGED <<handler, chunker, threads>>

NextAnyId == AddDocumentAnyId \/ DeleteDocument

SpecAnyId == Init /\ [][NextAnyId]_vars

\* ------------------------------------------------------------------ chunking alone

\* a text and a budget, nothing chunked yet; the store plays no part
InitChunk ==
    /\ handler = "ready"
    /\ index = <<>>
    /\ id_map = <<>>
    /\ documents = <<>>
    /\ index_file = Absent
    /\ metadata_file = Absent
    /\ lastCall = Call("init", "-", TRUE, FALSE)
    /\ deleted = {}
    /\ faults = 0
    /\ the_text \in Texts
    /\ max_length \in Budgets
    /\ chunks = NotChunked
    /\ deleting = Idle
    /\ querying = Idle

\* chunks = self._chunk_text(the_text, max_length)
ChunkText ==
    /\ chunks = NotChunked
    /\ chunks' = [kind |-> "list", list |-> _chunk_text(the_text, max_length)]
    /\ UNCHANGED <<handler, index, id_map, documents, index_file, metadata_file,
                   lastCall, deleted, faults, the_text, max_length, threads>>

NextChunk == ChunkText

SpecChunk == InitChunk /\ [][NextChunk]_vars

\* ------------------------------------------------------------------ properties

Positions(doc) == Range(doc.chunk_indices)

\* the rows no two documents share
Disjoint(docs) ==
    \A i, j \in 1..Len(docs) : i # j => Positions(docs[i]) \cap Positions(docs[j]) = {}

\* the rows the documents own together
Owned(docs) == UNION { Positions(docs[i]) : i \in 1..Len(docs) }

\* C1: after any sequence of add_document and delete_document calls, successful
\* or failed, with caller-unique ids: id_map is as long as the index has rows,
\* the chunk_indices lists are duplicate-free and pairwise disjoint, their union
\* is {0, ..., rowCount - 1}, and id_map[i] is the id of the document whose
\* chunk_indices contains i.
RowPositionInvariant ==
    /\ Len(id_map) = Len(index)
    /\ \A i \in 1..Len(documents) :
          Cardinality(Positions(documents[i])) = Len(documents[i].chunk_indices)
    /\ Disjoint(documents)
    /\ Owned(documents) = 0..(Len(index) - 1)
    /\ \A i \in 1..Len(documents) :
          \A p \in Positions(documents[i]) : id_map[p + 1] = documents[i].id

\* a failed add after a successful delete, two documents with three rows left
RowPositionWitness ==
    /\ lastCall.op = "add"
    /\ ~lastCall.ret
    /\ deleted # {}
    /\ Len(documents) = 2
    /\ Len(index) = 3

ResultIds(results) == { results[i].id : i \in 1..Len(results) }

\* C2: once delete_document(D) has returned True, and until D is added again,
\* no query (any vector, any n_results, either tie order: QuerySimilar makes
\* them all in every state) returns an entry with id D and list_documents does
\* not include D.
DeletedNeverReturned ==
    \A D \in deleted :
        /\ D \notin ResultIds(list_documents(Self))
        /\ lastCall.op \in {"query", "list"} => D \notin ResultIds(lastCall.out)

\* a query that returns two other documents after a delete
DeletedNeverReturnedWitness ==
    /\ deleted # {}
    /\ lastCall.op = "query"
    /\ Len(lastCall.out) = 2

\* the list is m, m + 1, m + 2, ...
Contiguous(chunk_indices) ==
    \A j \in 2..Len(chunk_indices) : chunk_indices[j] = chunk_indices[j - 1] + 1

\* C3: after a successful delete_document every surviving document's
\* chunk_indices is a contiguous ascending range of new row numbers, the ranges
\* of different documents are disjoint, and together they cover
\* 0 .. newRowCount - 1, so the first surviving document starts at 0.
DeleteReindexes ==
    (lastCall.op = "delete" /\ lastCall.ret) =>
        /\ \A i \in 1..Len(documents) : Contiguous(documents[i].chunk_indices)
        /\ Disjoint(documents)
        /\ Owned(documents) = 0..(Len(index) - 1)
        /\ Len(documents) > 0 => documents[1].chunk_indices[1] = 0

\* the scenario: A and then B (2 chunks) were added, A was deleted, and the
\* index has 2 rows, both B's, at positions [0, 1]
DeleteReindexesWitness ==
    /\ lastCall.op = "delete"
    /\ lastCall.ret
    /\ lastCall.doc = "A"
    /\ Len(index) = 2
    /\ id_map = <<"B", "B">>
    /\ Len(documents) = 1
    /\ documents[1].chunk_indices = <<0, 1>>

\* a delete between two survivors: the later one moves down
DeleteMiddleWitness ==
    /\ lastCall.op = "delete"
    /\ lastCall.ret
    /\ Len(documents) = 2
    /\ documents[1].chunk_indices = <<0>>
    /\ documents[2].chunk_indices = <<1, 2>>

\* C4: a successful delete_document(D) removes exactly D: the ids afterwards are
\* the ids before minus D and every survivor keeps its text and metadata; and a
\* document leaves the store only in a successful delete of its own id.
DeleteRemovesExactly ==
    [][ /\ (lastCall'.op = "delete" /\ lastCall'.ret) =>
              /\ Ids(documents') = Ids(documents) \ {lastCall'.doc}
              /\ lastCall'.doc \in Ids(documents)
              /\ \A d \in Ids(documents') :
                    /\ DocOf(documents', d).text = DocOf(documents, d).text
                    /\ DocOf(documents', d).metadata = DocOf(documents, d).metadata
        /\ \A d \in Ids(documents) \ Ids(documents') :
              lastCall'.op = "delete" /\ lastCall'.ret /\ lastCall'.doc = d
      ]_vars

\* a delete that left two documents, the first stored one not among them
DeleteRemovesExactlyWitness ==
    /\ lastCall.op = "delete"
    /\ lastCall.ret
    /\ Len(documents) = 2
    /\ lastCall.doc = "A"

\* the rows document_id owns according to id_map
RowsOf(document_id) == { r \in 1..Len(id_map) : id_map[r] = document_id }

\* the distance from q of the nearest row of document_id
BestDistance(document_id, q) ==
    LET d == Distances(index, q)
        best == CHOOSE r \in RowsOf(document_id) :
                    \A s \in RowsOf(document_id) : d[r] <= d[s]
    IN d[best]

\* the rows among the k nearest to q however ties are ordered, and the rows
\* among them for some order of the ties
SurelyNearest(q, k) ==
    LET d == Distances(index, q)
    IN { r \in 1..Len(index) :
            Cardinality({ s \in 1..Len(index) : s # r /\ d[s] <= d[r] }) < k }

PossiblyNearest(q, k) ==
    LET d == Distances(index, q)
    IN { r \in 1..Len(index) :
            Cardinality({ s \in 1..Len(index) : d[s] < d[r] }) < k }

\* C5: query_similar(q, k) returns at most k entries, no document id twice,
\* each entry with its document's text and metadata, the documents being those
\* that own one of the k nearest rows, ordered by the distance of their nearest
\* row; a document owning several of the nearest rows is returned once.
QueryDedupRanked ==
    lastCall.op = "query" =>
        LET out == lastCall.out
            q == lastCall.q
            k == lastCall.k
        IN /\ lastCall.ret
           /\ Len(out) <= k
           /\ \A i, j \in 1..Len(out) : i # j => out[i].id # out[j].id
           /\ \A i \in 1..Len(out) :
                 /\ HasDoc(documents, out[i].id)
                 /\ out[i].text = DocOf(documents, out[i].id).text
                 /\ out[i].metadata = DocOf(documents, out[i].id).metadata
           /\ \A i, j \in 1..Len(out) :
                 i < j => BestDistance(out[i].id, q) <= BestDistance(out[j].id, q)
           /\ { id_map[r] : r \in SurelyNearest(q, k) } \subseteq ResultIds(out)
           /\ ResultIds(out) \subseteq { id_map[r] : r \in PossiblyNearest(q, k) }

\* the two nearest rows belong to one document, another document is farther
\* away, and the query for 2 results returns the one document once
QueryDedupWitness ==
    /\ lastCall.op = "query"
    /\ lastCall.k = 2
    /\ Len(documents) >= 2
    /\ Cardinality(SurelyNearest(lastCall.q, 2)) = 2
    /\ Len(lastCall.out) = 1

\* two documents returned, the nearer one first
QueryRankedWitness ==
    /\ lastCall.op = "query"
    /\ Len(lastCall.out) = 2
    /\ BestDistance(lastCall.out[1].id, lastCall.q)
          < BestDistance(lastCall.out[2].id, lastCall.q)

\* C6: on an empty index (a fresh store, or one whose documents were all
\* deleted) query_similar returns the empty list for every vector and every
\* n_results, and no exception leaves the call.
EmptyIndexQueryEmpty ==
    (Len(index) = 0 /\ lastCall.op = "query") =>
        /\ lastCall.ret
        /\ lastCall.out = <<>>

\* a query for 2 results after the last document was deleted
EmptyIndexQueryWitness ==
    /\ lastCall.op = "query"
    /\ lastCall.k = 2
    /\ Len(index) = 0
    /\ deleted # {}

\* ------------------------------------------------------------------ properties of the files

\* a fresh DatabaseHandler on the persist directory as it is now
Reloaded == __init__(index_file, metadata_file)

\* the fresh handler lists and answers as this one does
SameAnswers(other) ==
    /\ list_documents(other) = list_documents(Self)
    /\ \A q \in Vectors, k \in 0..MaxK, tb \in TieBreaks :
          query_similar(other, q, k, tb) = query_similar(Self, q, k, tb)

\* C7: after add_document or delete_document has returned True, a fresh handler
\* constructed on the same persist directory has the same documents, position
\* map and index rows, and list_documents and query_similar return the same on
\* both.
RoundTripPersistence ==
    (handler = "ready" /\ lastCall.op \in {"add", "delete"} /\ lastCall.ret) =>
        /\ ~Reloaded.raised
        /\ Reloaded.self = Self
        /\ SameAnswers(Reloaded.self)

\* C8: a construction that finds exactly one of the two files halts; it never
\* yields a handler.
OneArtifactHalts ==
    (/\ lastCall.op = "init"
     /\ (index_file = Absent) # (metadata_file = Absent)) =>
        /\ ~lastCall.ret
        /\ handler = "none"

\* C9: a construction that finds faiss.index but no metadata.pkl raises; no
\* handler with an empty store comes of it.
IndexWithoutMetadataRaises ==
    (/\ lastCall.op = "init"
     /\ index_file # Absent
     /\ metadata_file = Absent) =>
        /\ ~lastCall.ret
        /\ handler = "none"

\* a start on a directory with a readable faiss.index and no metadata.pkl
IndexWithoutMetadataWitness ==
    /\ lastCall.op = "init"
    /\ index_file.kind = "faiss"
    /\ index_file.ntotal > 0
    /\ metadata_file = Absent

\* C10: add_document and delete_document return True only when persist() has
\* written both files with the state the call produced; when a write of
\* persist() fails they return False.
SuccessImpliesPersisted ==
    (lastCall.op \in {"add", "delete"} /\ lastCall.ret) =>
        /\ lastCall.persisted
        /\ index_file = write_index(index)
        /\ metadata_file = pickle_dump(Self)

\* C11: delete_document with an id that is not in the document store returns
\* False and leaves the index, the documents, id_map and both files as they
\* were: nothing is rebuilt and persist() is not called.
DeleteAbsentUnchanged ==
    [][ (lastCall'.op = "delete" /\ ~HasDoc(documents, lastCall'.doc)) =>
            /\ ~lastCall'.ret
            /\ ~lastCall'.persisted
            /\ UNCHANGED <<index, id_map, documents, index_file, metadata_file>>
      ]_vars

\* a failed delete of an id that is not stored, on a store with rows whose
\* files are behind it (a persist() would have shown)
DeleteAbsentWitness ==
    /\ lastCall.op = "delete"
    /\ ~lastCall.ret
    /\ ~HasDoc(documents, lastCall.doc)
    /\ Len(index) > 0
    /\ metadata_file # pickle_dump(Self)

\* the upload that carries document_id
UploadOf(document_id) == CHOOSE up \in Uploads : up.id = document_id

DuplicateIdRejected ==
    [][ (lastCall'.op = "add" /\ HasDoc(documents, lastCall'.doc)) =>
            /\ ~lastCall'.ret
            /\ UNCHANGED <<index, id_map, documents>>
      ]_vars

\* C17: what is on disk is one snapshot: at every moment, also after a write of
\* persist() has failed partway, loading the persist directory fails or gives
\* an index and a metadata structure of the same state, so id_map is as long as
\* the index has rows.
SnapshotIsUnit ==
    ~Reloaded.raised => Len(Reloaded.self.id_map) = Len(Reloaded.self.index)

\* the rows as (vector, owning document) pairs
RowPairs(idx, map) == [i \in 1..Len(idx) |-> <<idx[i], map[i]>>]

\* the pairs of s whose document is not D, in their order
RECURSIVE Without(_, _)
Without(s, D) ==
    IF s = <<>>
    THEN <<>>
    ELSE IF Head(s)[2] = D
    THEN Without(Tail(s), D)
    ELSE <<Head(s)>> \o Without(Tail(s), D)

\* C18: a successful delete_document(D) is an order-preserving compaction: the
\* rows of the new index, as (vector, owning document) pairs, are the old rows
\* without those of D, the others in their old order, and the new row count is
\* the old one minus the number of rows D owned.
DeleteCompacts ==
    [][ (lastCall'.op = "delete" /\ lastCall'.ret) =>
            LET D == lastCall'.doc
            IN /\ Len(id_map') = Len(index')
               /\ RowPairs(index', id_map') = Without(RowPairs(index, id_map), D)
               /\ Len(index') =
                     Len(index) - Len(DocOf(documents, D).chunk_indices)
      ]_vars

\* a delete that left three rows of two documents, two different vectors of
\* the second document among them
DeleteCompactsWitness ==
    /\ lastCall.op = "delete"
    /\ lastCall.ret
    /\ Len(index) = 3
    /\ id_map[1] # id_map[2]
    /\ id_map[2] = id_map[3]
    /\ index[2] # index[3]

\* the labels of I that are rows of an index with n rows
RECURSIVE ValidLabels(_, _)
ValidLabels(I, n) ==
    IF I = <<>>
    THEN <<>>
    ELSE IF Head(I) >= 0 /\ Head(I) < n
    THEN <<Head(I)>> \o ValidLabels(Tail(I), n)
    ELSE ValidLabels(Tail(I), n)

\* what the loop of query_similar gives when it is handed the valid labels only
FromValidLabels(self, q, k, tb) ==
    LET r == walk(self, ValidLabels(search(self.index, q, k, tb), Len(self.index)), 1,
                  [raised |-> FALSE, results |-> <<>>, seen_docs |-> {}])
    IN IF r.raised THEN <<>> ELSE r.results

\* C20: query_similar ignores every label of the search that is not a row
\* 0 .. rowCount - 1 of the index, the label -1 that stands for a missing
\* neighbour included: such a label resolves to no document and adds no entry,
\* so the result is what the valid labels alone give.
InvalidLabelsIgnored ==
    (lastCall.op = "query" /\ lastCall.k > 0) =>
        \E tb \in TieBreaks :
            lastCall.out = FromValidLabels(Self, lastCall.q, lastCall.k, tb)

\* the documents that own one of the k rows nearest to q in the state self,
\* for some order of the ties
NearestOwners(self, q, k) ==
    LET d == Distances(self.index, q)
    IN { self.id_map[r] : r \in
            { r \in 1..Len(self.index) :
                Cardinality({ s \in 1..Len(self.index) : d[s] < d[r] }) < k } }

\* C16: the swap of delete_document is atomic for readers: a query_similar
\* that runs while delete_document runs never sees the index of one generation
\* with the metadata of the other, so every document it returns owns one of
\* the nearest rows in the complete state before the delete or in the complete
\* state after it.
SwapIsAtomic ==
    querying.pc = "done" =>
        ResultIds(querying.results) \subseteq
            NearestOwners(querying.pre, querying.q, querying.k)
                \cup NearestOwners(querying.post, querying.q, querying.k)

\* C21: every stored document owns at least one row at all times: an
\* add_document that adds no row (an empty list of embeddings among them)
\* returns False and creates no entry for its id, a successful one records at
\* least one position, and no sequence of uploads and deletes leaves an entry
\* with an empty chunk_indices list.
EveryDocumentOwnsRow ==
    /\ \A i \in 1..Len(documents) : Len(documents[i].chunk_indices) >= 1
    /\ (lastCall.op = "add" /\ ~lastCall.ret) => ~HasDoc(documents, lastCall.doc)
    /\ (lastCall.op = "add" /\ lastCall.ret) =>
          /\ HasDoc(documents, lastCall.doc)
          /\ RowsOf(lastCall.doc) # {}

\* a failed upload into a store that holds two documents, one of them left
\* over from before a delete
EveryDocumentOwnsRowWitness ==
    /\ lastCall.op = "add"
    /\ ~lastCall.ret
    /\ Len(documents) = 2
    /\ Len(index) = 2
    /\ deleted # {}

\* C23: whenever add_document or delete_document returns False, the index,
\* the documents, id_map and both files are exactly as they were before the
\* call: a reported failure leaves no partly applied change.
FailureLeavesNoTrace ==
    [][ (lastCall'.op \in {"add", "delete"} /\ ~lastCall'.ret) =>
            UNCHANGED <<index, id_map, documents, index_file, metadata_file>>
      ]_vars

\* a delete of a stored id that failed: the loop met a row of a document that
\* has no entry and raised
FailureLeavesNoTraceWitness ==
    /\ lastCall.op = "delete"
    /\ ~lastCall.ret
    /\ HasDoc(documents, lastCall.doc)
    /\ Len(index) >= 2

\* C22: uploads and deletes exclude each other for the whole call: the steps of
\* two mutating calls issued by handlers that run at the same time never
\* interleave, so once both have returned the state is that of one of the two
\* sequential orders: id_map is as long as the index has rows, the
\* chunk_indices lists cover the rows 0 .. rowCount - 1 and agree with id_map,
\* and a document whose upload returned True is in the store.
WritersSerialised ==
    deleting = Idle =>
        /\ Len(id_map) = Len(index)
        /\ Owned(documents) = 0..(Len(index) - 1)
        /\ \A i \in 1..Len(documents) :
              \A p \in Positions(documents[i]) :
                  p < Len(id_map) /\ id_map[p + 1] = documents[i].id
        /\ (lastCall.op = "add" /\ lastCall.ret) => HasDoc(documents, lastCall.doc)

\* C25: the admin's delete handler removes the document of the row the
\* administrator selected, also when several documents share a filename: the
\* id it passes to delete_document is the id of that row's document, and the
\* documents that leave the store are at most that one.
SelectedRowDeleted ==
    (lastCall.op = "select" /\ lastCall.doc # "-") =>
        /\ lastCall.doc = lastCall.selected
        /\ lastCall.ret => ~HasDoc(documents, lastCall.selected)

\* ------------------------------------------------------------------ properties of the chunks

\* the chunk is one word: no blank cuts it
SingleWord(chunk) == Len(split(chunk)) = 1 /\ join(split(chunk)) = chunk

\* C14: every chunk _chunk_text produces is at most max_length characters long,
\* unless it is a single word that alone is longer than max_length.
ChunkingBound ==
    chunks.kind = "list" =>
        \A i \in 1..Len(chunks.list) :
            \/ Len(chunks.list[i]) <= max_length
            \/ SingleWord(chunks.list[i])

\* a chunk of several words that fills the budget exactly, next to another chunk
ChunkingBoundWitness ==
    /\ chunks.kind = "list"
    /\ Len(chunks.list) >= 2
    /\ \E i \in 1..Len(chunks.list) :
          /\ Len(split(chunks.list[i])) >= 2
          /\ Len(chunks.list[i]) = max_length

\* a single word longer than the budget, kept whole
OversizeWordWitness ==
    /\ chunks.kind = "list"
    /\ \E i \in 1..Len(chunks.list) :
          /\ SingleWord(chunks.list[i])
          /\ Len(chunks.list[i]) > max_length

\* C15: the chunks joined by single blanks are the words of the text joined by
\* single blanks: no word dropped, doubled or moved, nothing added.
ChunkConcatenation ==
    chunks.kind = "list" => join(chunks.list) = join(split(the_text))

\* C19: for every two consecutive chunks, the first word of the later one,
\* appended to the earlier one after one blank, would exceed max_length; the
\* first chunk is cut by the same rule as the later ones.
GreedyMaximal ==
    chunks.kind = "list" =>
        \A i \in 1..(Len(chunks.list) - 1) :
            Len(chunks.list[i]) + 1 + Len(split(chunks.list[i + 1])[1]) > max_length

\* the words of the text that are longer than the budget
OversizeWords == { w \in Range(split(the_text)) : Len(w) > max_length }

\* C24: _chunk_text emits no empty chunk: every chunk holds at least one word,
\* also when the first word of the text is as long as the budget or longer,
\* and a word longer than the budget is a chunk of its own.
NoEmptyChunk ==
    chunks.kind = "list" =>
        /\ \A i \in 1..Len(chunks.list) : Len(split(chunks.list[i])) >= 1
        /\ \A w \in OversizeWords : \E i \in 1..Len(chunks.list) : chunks.list[i] = w

====
